---- MODULE Spec2Model ----
(* Model of the ZanCan frame codec (src/src/lib.rs): the ZanCanFrame value, *)
(* its lift from a generic CAN frame, the five typed constructors and the   *)
(* five typed decoders.  The collaborator modules (address, zan_can_type,   *)
(* emegency, error, message_data) are modelled from their interface.        *)
EXTENDS Integers, Sequences, FiniteSets, TLC

VARIABLES pc, frame, src, res

vars == <<pc, frame, src, res>>

(***************************************************************************)
(* Bounds of the model                                                     *)
(***************************************************************************)
MaxGenericLen == 9     \* longest data() slice a generic frame exposes
MaxDlc == 9            \* largest dlc() a generic frame reports
MaxIdLen == 2          \* longest DataIdentifier, in bytes
MaxValLen == 1         \* longest DataMessage value, in bytes

(***************************************************************************)
(* Fixed-width integer helpers                                             *)
(***************************************************************************)
RECURSIVE Pow2(_)
Pow2(n) == IF n = 0 THEN 1 ELSE 2 * Pow2(n - 1)

RECURSIVE BitOr(_, _)
BitOr(a, b) ==
    IF a = 0 THEN b
    ELSE IF b = 0 THEN a
    ELSE (IF (a % 2) + (b % 2) > 0 THEN 1 ELSE 0) + 2 * BitOr(a \div 2, b \div 2)

RECURSIVE BitAnd(_, _)
BitAnd(a, b) ==
    IF a = 0 \/ b = 0 THEN 0
    ELSE ((a % 2) * (b % 2)) + 2 * BitAnd(a \div 2, b \div 2)

AsU8(x) == x % 256
Shl16(x, n) == (x * Pow2(n)) % 65536
Shr(x, n) == x \div Pow2(n)

(***************************************************************************)
(* address collaborator                                                    *)
(***************************************************************************)
ADDRESS_BIT_LENGTH == 8

ZanCanAddress == 0 .. (Pow2(ADDRESS_BIT_LENGTH) - 1)

AddressToU8(addr) == addr

(***************************************************************************)
(* zan_can_type collaborator                                               *)
(***************************************************************************)
ZanCanFrameType == {"Emergency", "Error", "SentData", "RequestData", "SetData"}

FrameTypeToU8(t) ==
    CASE t = "Emergency" -> 0
      [] t = "Error" -> 1
      [] t = "SentData" -> 2
      [] t = "RequestData" -> 3
      [] t = "SetData" -> 4

DEFAULT_FRAME_TYPE == "Error"

\* ZanCanFrameType::from(Id): decode the type sub-field of the identifier
FrameTypeFromId(id) ==
    LET code == Shr(id.raw, ADDRESS_BIT_LENGTH) % Pow2(11 - ADDRESS_BIT_LENGTH)
    IN  IF \E t \in ZanCanFrameType : FrameTypeToU8(t) = code
        THEN CHOOSE t \in ZanCanFrameType : FrameTypeToU8(t) = code
        ELSE DEFAULT_FRAME_TYPE

(***************************************************************************)
(* embedded_can identifiers                                                *)
(***************************************************************************)
MAX_STANDARD_ID == 2047

\* StandardId::new(raw): None when raw exceeds the 11-bit range
StandardIdNew(raw) ==
    [some |-> raw <= MAX_STANDARD_ID, id |-> [ext |-> FALSE, raw |-> raw]]

ZeroData == <<0, 0, 0, 0, 0, 0, 0, 0>>

NoFrame == [id |-> [ext |-> FALSE, raw |-> 0], data_len |-> 0,
            data |-> ZeroData, f_type |-> "Emergency"]

Aborted == [abort |-> TRUE, frame |-> NoFrame]
Built(f) == [abort |-> FALSE, frame |-> f]

(***************************************************************************)
(* id_from_type_and_address                                                *)
(***************************************************************************)
\* variant: the type code is shifted one bit short
id_from_type_and_address_short_shift(t, addr) ==
    LET id0 == BitOr(0, FrameTypeToU8(t))
        id1 == Shl16(id0, ADDRESS_BIT_LENGTH - 1)
        id2 == BitOr(id1, AddressToU8(addr))
        sid == StandardIdNew(id2)
    IN  [abort |-> ~sid.some, id |-> sid.id]

id_from_type_and_address(t, addr) ==
    LET id0 == BitOr(0, FrameTypeToU8(t))
        id1 == Shl16(id0, ADDRESS_BIT_LENGTH)
        id2 == BitOr(id1, AddressToU8(addr))
        sid == StandardIdNew(id2)
    IN  [abort |-> ~sid.some, id |-> sid.id]

(***************************************************************************)
(* emegency collaborator                                                   *)
(***************************************************************************)
EmegencyStatus == BOOLEAN

\* u8::from(status): the status occupies the top bit only
StatusToU8(status) == IF status THEN 128 ELSE 0

\* EmegencyStatus::try_from(u8)
StatusTryFrom(b) == [ok |-> b \in {0, 128}, val |-> (b = 128)]

\* the reason catalog: 15-bit values (0x0000, 0x00FF, 0x1234, 0x2AAA,
\* 0x5555, 0x7FFF)
EmergencyReason == {0, 255, 4660, 10922, 21845, 32767}

ReasonToU16(reason) == reason

\* EmergencyReason::try_from(u16)
ReasonTryFrom(x) == [ok |-> x \in EmergencyReason, val |-> x]

(***************************************************************************)
(* error collaborator                                                      *)
(***************************************************************************)
\* the error-code catalog (0x0001, 0xABCD, 0xFFFF)
ErrorCode == {1, 43981, 65535}

UNKNOWN_ERROR_CODE == 65535

ErrorCodeAsU16(code) == code

\* ErrorCode::from(u16): total, values outside the catalog map to the default
ErrorCodeFrom(x) == IF x \in ErrorCode THEN x ELSE UNKNOWN_ERROR_CODE

(***************************************************************************)
(* message_data collaborator                                               *)
(***************************************************************************)
DataBytes == {165}

SeqsUpTo(S, lo, hi) == UNION {[1 .. n -> S] : n \in lo .. hi}

DataIdentifier == SeqsUpTo(DataBytes, 1, MaxIdLen)

DataIdentifierLen(d) == Len(d)

\* writes `bytes` at the start of `buf`; fails when they do not fit
WriteBytes(bytes, buf) ==
    [ok  |-> Len(bytes) <= Len(buf),
     buf |-> [i \in 1 .. Len(buf) |-> IF i <= Len(bytes) THEN bytes[i] ELSE buf[i]]]

DataIdentifierWrite(d, buf) == WriteBytes(d, buf)

\* DataIdentifier::try_from(&[u8]): the whole slice is the identifier
DataIdentifierTryFrom(slice) == [ok |-> Len(slice) >= 1, val |-> slice]

DataMessageBytes(m) == <<Len(m.did), Len(m.val)>> \o m.did \o m.val

DataMessageLen(m) == Len(DataMessageBytes(m))

DataMessage ==
    {m \in [did : DataIdentifier, val : SeqsUpTo(DataBytes, 0, MaxValLen)] :
        DataMessageLen(m) <= 8}

DataMessageWrite(m, buf) == WriteBytes(DataMessageBytes(m), buf)

\* DataMessage::try_from(&[u8]): self-delimiting, trailing bytes are ignored
DataMessageTryFrom(slice) ==
    IF Len(slice) >= 2 /\ slice[1] >= 1 /\ 2 + slice[1] + slice[2] <= Len(slice)
    THEN [ok  |-> TRUE,
          val |-> [did |-> SubSeq(slice, 3, 2 + slice[1]),
                   val |-> SubSeq(slice, 3 + slice[1], 2 + slice[1] + slice[2])]]
    ELSE [ok |-> FALSE, val |-> [did |-> <<>>, val |-> <<>>]]

(***************************************************************************)
(* Typed constructors                                                      *)
(***************************************************************************)
\* variant: the reason is split 8+7 instead of 7+8
new_emergency_shift7(addr, status, reason) ==
    LET reason_u16 == ReasonToU16(reason)
        d0 == BitOr(StatusToU8(status), AsU8(Shr(reason_u16, 7)))
        d1 == AsU8(reason_u16)
        data == [ZeroData EXCEPT ![1] = d0, ![2] = d1]
        id == id_from_type_and_address("Emergency", addr)
    IN  IF id.abort THEN Aborted
        ELSE Built([id |-> id.id, data_len |-> 2, data |-> data,
                    f_type |-> "Emergency"])

new_emergency(addr, status, reason) ==
    LET reason_u16 == ReasonToU16(reason)
        d0 == BitOr(StatusToU8(status), AsU8(Shr(reason_u16, 8)))
        d1 == AsU8(reason_u16)
        data == [ZeroData EXCEPT ![1] = d0, ![2] = d1]
        id == id_from_type_and_address("Emergency", addr)
    IN  IF id.abort THEN Aborted
        ELSE Built([id |-> id.id, data_len |-> 2, data |-> data,
                    f_type |-> "Emergency"])

\* variant: the two code bytes are stored little-endian
new_error_little_endian(addr, code) ==
    LET error_code_u16 == ErrorCodeAsU16(code)
        data == [ZeroData EXCEPT ![1] = AsU8(error_code_u16),
                                 ![2] = AsU8(Shr(error_code_u16, 8))]
        id == id_from_type_and_address("Error", addr)
    IN  IF id.abort THEN Aborted
        ELSE Built([id |-> id.id, data_len |-> 2, data |-> data,
                    f_type |-> "Error"])

new_error(addr, code) ==
    LET error_code_u16 == ErrorCodeAsU16(code)
        data == [ZeroData EXCEPT ![1] = AsU8(Shr(error_code_u16, 8)),
                                 ![2] = AsU8(error_code_u16)]
        id == id_from_type_and_address("Error", addr)
    IN  IF id.abort THEN Aborted
        ELSE Built([id |-> id.id, data_len |-> 2, data |-> data,
                    f_type |-> "Error"])

new_sent_data(addr, message) ==
    LET w == DataMessageWrite(message, ZeroData)
        id == id_from_type_and_address("SentData", addr)
    IN  IF ~w.ok \/ id.abort THEN Aborted
        ELSE Built([id |-> id.id, data_len |-> DataMessageLen(message),
                    data |-> w.buf, f_type |-> "SentData"])

\* variant: the cached kind is copied from the SentData constructor
new_request_data_wrong_kind(addr, data_id) ==
    LET w == DataIdentifierWrite(data_id, ZeroData)
        id == id_from_type_and_address("RequestData", addr)
    IN  IF ~w.ok \/ id.abort THEN Aborted
        ELSE Built([id |-> id.id, data_len |-> DataIdentifierLen(data_id),
                    data |-> w.buf, f_type |-> "SentData"])

new_request_data(addr, data_id) ==
    LET w == DataIdentifierWrite(data_id, ZeroData)
        id == id_from_type_and_address("RequestData", addr)
    IN  IF ~w.ok \/ id.abort THEN Aborted
        ELSE Built([id |-> id.id, data_len |-> DataIdentifierLen(data_id),
                    data |-> w.buf, f_type |-> "RequestData"])

\* variant: the length is the identifier's instead of the message's
new_set_data_short_len(addr, message) ==
    LET w == DataMessageWrite(message, ZeroData)
        id == id_from_type_and_address("SetData", addr)
    IN  IF ~w.ok \/ id.abort THEN Aborted
        ELSE Built([id |-> id.id, data_len |-> DataIdentifierLen(message.did),
                    data |-> w.buf, f_type |-> "SetData"])

new_set_data(addr, message) ==
    LET w == DataMessageWrite(message, ZeroData)
        id == id_from_type_and_address("SetData", addr)
    IN  IF ~w.ok \/ id.abort THEN Aborted
        ELSE Built([id |-> id.id, data_len |-> DataMessageLen(message),
                    data |-> w.buf, f_type |-> "SetData"])

(***************************************************************************)
(* impl Frame for ZanCanFrame: the generic accessors                       *)
(***************************************************************************)
is_extended(f) == FALSE

is_remote_frame(f) == FALSE

id(f) == f.id

dlc(f) == f.data_len

\* &self.data[..self.data_len]: the slice panics when data_len exceeds 8
data(f) ==
    IF f.data_len > 8 THEN [abort |-> TRUE, val |-> <<>>]
    ELSE [abort |-> FALSE, val |-> SubSeq(f.data, 1, f.data_len)]

frame_type(f) == f.f_type

(***************************************************************************)
(* from_frame: lift a generic frame g = [id, remote, dlc, data]            *)
(***************************************************************************)
\* the copy loop of from_frame; i is the 0-based index of the source
RECURSIVE CopyLoop(_, _, _)
CopyLoop(buf, gdata, i) ==
    IF ~(i < Len(gdata)) THEN [abort |-> FALSE, buf |-> buf]
    ELSE IF i >= 8 THEN [abort |-> TRUE, buf |-> buf]
    ELSE CopyLoop([buf EXCEPT ![i + 1] = gdata[i + 1]], gdata, i + 1)

from_frame(g) ==
    LET f_type == FrameTypeFromId(g.id)
        c == CopyLoop(ZeroData, g.data, 0)
    IN  IF c.abort THEN Aborted
        ELSE Built([id |-> g.id, data_len |-> g.dlc, data |-> c.buf,
                    f_type |-> f_type])

(***************************************************************************)
(* Typed decoders.  A result records whether the call panicked, the Ok or  *)
(* Err value, and the indices (0-based) of the payload bytes it read.      *)
(***************************************************************************)
Panic(op) == [op |-> op, abort |-> TRUE, ok |-> FALSE, err |-> "panic",
              val |-> 0, read |-> {}]
Err(op, e, rd) == [op |-> op, abort |-> FALSE, ok |-> FALSE, err |-> e,
                   val |-> 0, read |-> rd]
Ok(op, v, rd) == [op |-> op, abort |-> FALSE, ok |-> TRUE, err |-> "",
                  val |-> v, read |-> rd]

\* variant: the status bit is not masked out of the reason
decode_emergency_no_mask(f) ==
    IF f.f_type # "Emergency"
    THEN Err("decode_emergency", "kind_mismatch", {})
    ELSE LET status == StatusTryFrom(BitAnd(f.data[1], 128))
             r0 == BitAnd(f.data[1], 255)
             r1 == Shl16(r0, 8)
             reason_u16 == BitOr(r1, f.data[2])
             reason == ReasonTryFrom(reason_u16)
         IN  IF ~status.ok
             THEN Err("decode_emergency", "invalid_status", {0})
             ELSE IF ~reason.ok
             THEN Err("decode_emergency", "invalid_reason", {0, 1})
             ELSE Ok("decode_emergency", <<status.val, reason.val>>, {0, 1})

decode_emergency(f) ==
    IF f.f_type # "Emergency"
    THEN Err("decode_emergency", "kind_mismatch", {})
    ELSE LET status == StatusTryFrom(BitAnd(f.data[1], 128))
             r0 == BitAnd(f.data[1], 127)
             r1 == Shl16(r0, 8)
             reason_u16 == BitOr(r1, f.data[2])
             reason == ReasonTryFrom(reason_u16)
         IN  IF ~status.ok
             THEN Err("decode_emergency", "invalid_status", {0})
             ELSE IF ~reason.ok
             THEN Err("decode_emergency", "invalid_reason", {0, 1})
             ELSE Ok("decode_emergency", <<status.val, reason.val>>, {0, 1})

decode_error(f) ==
    IF f.f_type # "Error"
    THEN Err("decode_error", "kind_mismatch", {})
    ELSE LET e0 == f.data[1]
             e1 == Shl16(e0, 8)
             error_code_u16 == BitOr(e1, f.data[2])
         IN  Ok("decode_error", ErrorCodeFrom(error_code_u16), {0, 1})

decode_sent_data(f) ==
    IF f.f_type # "SentData"
    THEN Err("decode_sent_data", "kind_mismatch", {})
    ELSE LET d_m == DataMessageTryFrom(f.data)
         IN  IF ~d_m.ok THEN Err("decode_sent_data", "parse", 0 .. 7)
             ELSE Ok("decode_sent_data", d_m.val, 0 .. 7)

decode_request_data(f) ==
    IF f.f_type # "RequestData"
    THEN Err("decode_request_data", "kind_mismatch", {})
    ELSE IF f.data_len > 8 THEN Panic("decode_request_data")
    ELSE LET d_id == DataIdentifierTryFrom(SubSeq(f.data, 1, f.data_len))
         IN  IF ~d_id.ok
             THEN Err("decode_request_data", "parse", 0 .. (f.data_len - 1))
             ELSE Ok("decode_request_data", d_id.val, 0 .. (f.data_len - 1))

\* variant: the kind check is made against the SentData kind
decode_set_data_wrong_check(f) ==
    IF f.f_type # "SentData"
    THEN Err("decode_set_data", "kind_mismatch", {})
    ELSE LET d_m == DataMessageTryFrom(f.data)
         IN  IF ~d_m.ok THEN Err("decode_set_data", "parse", 0 .. 7)
             ELSE Ok("decode_set_data", d_m.val, 0 .. 7)

decode_set_data(f) ==
    IF f.f_type # "SetData"
    THEN Err("decode_set_data", "kind_mismatch", {})
    ELSE LET d_m == DataMessageTryFrom(f.data)
         IN  IF ~d_m.ok THEN Err("decode_set_data", "parse", 0 .. 7)
             ELSE Ok("decode_set_data", d_m.val, 0 .. 7)

(***************************************************************************)
(* Inputs                                                                  *)
(***************************************************************************)
\* identifiers of received generic frames: the five type codes and an
\* unrecognized one with a low or high address, and extended identifiers
\* (0x2A5, 0x1FFFFFFF)
GenericIds ==
    {[ext |-> FALSE,
      raw |-> c * Pow2(ADDRESS_BIT_LENGTH) + (IF c % 2 = 0 THEN 0 ELSE 255)] :
        c \in 0 .. 5}
    \cup {[ext |-> TRUE, raw |-> r] : r \in {677, 536870911}}

\* first and second payload byte of received generic frames
GenericByte0 == {0, 18, 146, 255}
GenericByte1 == {0, 52, 255}

GenericData ==
    {SubSeq(<<b0, b1>> \o [i \in 1 .. MaxGenericLen |-> 165], 1, n) :
        b0 \in GenericByte0, b1 \in GenericByte1, n \in 0 .. MaxGenericLen}

GenericFrames ==
    [id : GenericIds, remote : BOOLEAN, dlc : 0 .. MaxDlc, data : GenericData]

NoGeneric == [id |-> [ext |-> FALSE, raw |-> 0], remote |-> FALSE, dlc |-> 0,
              data |-> <<>>]

NoSrc == [op |-> "none", addr |-> 0, payload |-> 0, gen |-> NoGeneric,
          relifted |-> FALSE, prev |-> NoFrame]

NoRes == [op |-> "none", abort |-> FALSE, ok |-> FALSE, err |-> "",
          val |-> 0, read |-> {}]

(***************************************************************************)
(* State machine: one frame value is built, then inspected                 *)
(***************************************************************************)
Init ==
    /\ pc = "idle"
    /\ frame = NoFrame
    /\ src = NoSrc
    /\ res = NoRes

Construct(r, op, addr, payload, g) ==
    /\ pc' = IF r.abort THEN "aborted" ELSE "built"
    /\ frame' = r.frame
    /\ src' = [op |-> op, addr |-> addr, payload |-> payload, gen |-> g,
               relifted |-> FALSE, prev |-> NoFrame]
    /\ res' = NoRes

NewEmergency ==
    /\ pc = "idle"
    /\ \E addr \in ZanCanAddress, status \in EmegencyStatus, reason \in EmergencyReason :
        Construct(new_emergency(addr, status, reason), "new_emergency", addr,
                  <<status, reason>>, NoGeneric)

NewError ==
    /\ pc = "idle"
    /\ \E addr \in ZanCanAddress, code \in ErrorCode :
        Construct(new_error(addr, code), "new_error", addr, code, NoGeneric)

NewSentData ==
    /\ pc = "idle"
    /\ \E addr \in ZanCanAddress, message \in DataMessage :
        Construct(new_sent_data(addr, message), "new_sent_data", addr, message,
                  NoGeneric)

NewRequestData ==
    /\ pc = "idle"
    /\ \E addr \in ZanCanAddress, data_id \in DataIdentifier :
        Construct(new_request_data(addr, data_id), "new_request_data", addr,
                  data_id, NoGeneric)

NewSetData ==
    /\ pc = "idle"
    /\ \E addr \in ZanCanAddress, message \in DataMessage :
        Construct(new_set_data(addr, message), "new_set_data", addr, message,
                  NoGeneric)

FromFrame ==
    /\ pc = "idle"
    /\ \E g \in GenericFrames :
        Construct(from_frame(g), "from_frame", 0, 0, g)

\* the frame is handed to the generic transport and lifted again on receipt
Relift ==
    /\ pc = "built"
    /\ src.op # "from_frame"
    /\ LET d == data(frame)
           g == [id |-> id(frame), remote |-> is_remote_frame(frame),
                 dlc |-> dlc(frame), data |-> d.val]
           r == IF d.abort THEN Aborted ELSE from_frame(g)
       IN  /\ pc' = IF r.abort THEN "aborted" ELSE "built"
           /\ frame' = r.frame
           /\ src' = [src EXCEPT !.relifted = TRUE, !.prev = frame]
           /\ res' = NoRes

Decode(r) ==
    /\ pc = "built"
    /\ res' = r
    /\ pc' = IF r.abort THEN "aborted" ELSE "built"
    /\ UNCHANGED <<frame, src>>

DecodeEmergency == Decode(decode_emergency(frame))

DecodeError == Decode(decode_error(frame))

DecodeSentData == Decode(decode_sent_data(frame))

DecodeRequestData == Decode(decode_request_data(frame))

DecodeSetData == Decode(decode_set_data(frame))

Data ==
    LET d == data(frame)
    IN  Decode(IF d.abort THEN Panic("data") ELSE Ok("data", d.val, 0 .. (dlc(frame) - 1)))

Next ==
    \/ NewEmergency
    \/ NewError
    \/ NewSentData
    \/ NewRequestData
    \/ NewSetData
    \/ FromFrame
    \/ Relift
    \/ DecodeEmergency
    \/ DecodeError
    \/ DecodeSentData
    \/ DecodeRequestData
    \/ DecodeSetData
    \/ Data

Spec == Init /\ [][Next]_vars

(***************************************************************************)
(* Properties                                                              *)
(***************************************************************************)
Constructors == {"new_emergency", "new_error", "new_sent_data",
                 "new_request_data", "new_set_data"}

Decoders == {"decode_emergency", "decode_error", "decode_sent_data",
             "decode_request_data", "decode_set_data"}

KindOf(op) ==
    CASE op \in {"new_emergency", "decode_emergency"} -> "Emergency"
      [] op \in {"new_error", "decode_error"} -> "Error"
      [] op \in {"new_sent_data", "decode_sent_data"} -> "SentData"
      [] op \in {"new_request_data", "decode_request_data"} -> "RequestData"
      [] op \in {"new_set_data", "decode_set_data"} -> "SetData"

\* the frame in hand came straight from a typed constructor
FromConstructor == src.op \in Constructors /\ ~src.relifted

\* the frame in hand was lifted from a received generic frame
Lifted == src.op = "from_frame"

\* C1: decoding a frame with the decoder of the kind whose constructor built
\* it returns Ok with the payload the constructor was given, for every kind,
\* address and valid payload.
RoundTrip ==
    /\ (src.op \in Constructors => pc # "aborted")
    /\ (FromConstructor /\ res.op \in Decoders /\ KindOf(res.op) = KindOf(src.op))
          => (res.ok /\ res.val = src.payload)

RoundTripWitness ==
    /\ FromConstructor
    /\ src.op = "new_error" /\ src.payload = 43981 /\ src.addr = 255
    /\ res.op = "decode_error" /\ res.ok

\* C2: every decoder of another kind than the constructor's fails with the
\* kind-mismatch error, without having read a payload byte.
KindIsolation ==
    (FromConstructor /\ res.op \in Decoders /\ KindOf(res.op) # KindOf(src.op))
        => (~res.abort /\ ~res.ok /\ res.err = "kind_mismatch" /\ res.read = {})

KindIsolationWitness ==
    /\ FromConstructor
    /\ src.op = "new_sent_data"
    /\ res.op = "decode_set_data" /\ res.err = "kind_mismatch"

\* C3: the identifier of a constructed frame is the standard identifier
\* (type_code << ADDRESS_BIT_LENGTH) | address, composing never aborts, and
\* classifying the identifier recovers the type.
IdComposition ==
    /\ (src.op \in Constructors => pc # "aborted")
    /\ FromConstructor =>
          /\ ~frame.id.ext
          /\ frame.id.raw <= MAX_STANDARD_ID
          /\ frame.id.raw = FrameTypeToU8(KindOf(src.op)) * Pow2(ADDRESS_BIT_LENGTH)
                              + src.addr
          /\ FrameTypeFromId(frame.id) = KindOf(src.op)

IdCompositionWitness ==
    /\ FromConstructor
    /\ src.op = "new_set_data" /\ src.addr = 255
    /\ frame.id.raw = 1279

\* C4: the cached kind of every frame equals the classification of its
\* stored identifier; a lifted frame whose identifier carries the SentData
\* type code has kind SentData whatever its extended and remote flags.
KindMatchesId ==
    pc = "built" =>
        /\ frame_type(frame) = FrameTypeFromId(id(frame))
        /\ (Lifted /\ Shr(src.gen.id.raw, ADDRESS_BIT_LENGTH) % Pow2(11 - ADDRESS_BIT_LENGTH)
                        = FrameTypeToU8("SentData"))
              => frame_type(frame) = "SentData"

KindMatchesIdWitness ==
    /\ pc = "built" /\ Lifted
    /\ src.gen.id.ext /\ src.gen.remote
    /\ frame_type(frame) = "SentData"

\* C5: an emergency frame has length 2, bit 7 of byte 0 is the status, bits
\* 6..0 of byte 0 are bits 14..8 of the reason and byte 1 is bits 7..0 of
\* the reason; (true, 0x1234) gives 0x92 0x34 and decodes to (true, 0x1234).
EmergencyPacking ==
    (FromConstructor /\ src.op = "new_emergency") =>
        LET s == src.payload[1]
            r == src.payload[2]
        IN  /\ frame.data_len = 2
            /\ frame.data[1] \div 128 = (IF s THEN 1 ELSE 0)
            /\ frame.data[1] % 128 = r \div 256
            /\ frame.data[2] = r % 256
            /\ (s /\ r = 4660) => (frame.data[1] = 146 /\ frame.data[2] = 52)
            /\ res.op = "decode_emergency" => (res.ok /\ res.val = <<s, r>>)

EmergencyPackingWitness ==
    /\ FromConstructor /\ src.op = "new_emergency"
    /\ src.payload = <<TRUE, 4660>>
    /\ frame.data[1] = 146 /\ frame.data[2] = 52
    /\ res.op = "decode_emergency" /\ res.ok

\* C6: the identifier of every frame, constructed or lifted, is an 11-bit
\* standard identifier, in agreement with the fixed is_extended() == false
\* and is_remote_frame() == false reports.
StandardOnly ==
    pc = "built" =>
        /\ ~id(frame).ext
        /\ id(frame).raw <= MAX_STANDARD_ID
        /\ is_extended(frame) = id(frame).ext
        /\ is_remote_frame(frame) = FALSE

Min(a, b) == IF a < b THEN a ELSE b

\* C7: from_frame never aborts; the lifted frame has a length in 0..8 and
\* holds the first min(n, 8) bytes of the generic frame, and its data()
\* accessor then returns exactly `length` bytes without aborting.
LiftTotal ==
    Lifted =>
        /\ pc # "aborted"
        /\ frame.data_len \in 0 .. 8
        /\ \A i \in 1 .. Min(Len(src.gen.data), 8) : frame.data[i] = src.gen.data[i]
        /\ res.op = "data" => (~res.abort /\ Len(res.val) = frame.data_len)

\* C8: every buffer byte at an index >= length is zero, in every frame.
ZeroPadding ==
    pc = "built" =>
        \A i \in 1 .. 8 : i > frame.data_len => frame.data[i] = 0

\* C9: decode_emergency on a frame of kind Emergency never aborts; the
\* status is bit 7 of byte 0 and the reason is ((byte0 & 0x7F) << 8) | byte1;
\* a status outside its catalog gives the invalid-status error, a reason
\* outside its catalog the invalid-reason error, otherwise Ok((status, reason)).
EmergencyValidation ==
    (pc = "built" /\ frame_type(frame) = "Emergency" /\ res.op = "decode_emergency") =>
        LET st == (frame.data[1] \div 128) * 128
            rs == (frame.data[1] % 128) * 256 + frame.data[2]
        IN  /\ ~res.abort
            /\ res.err # "kind_mismatch"
            /\ IF ~StatusTryFrom(st).ok
               THEN ~res.ok /\ res.err = "invalid_status"
               ELSE IF ~ReasonTryFrom(rs).ok
               THEN ~res.ok /\ res.err = "invalid_reason"
               ELSE res.ok /\ res.val = <<(st = 128), rs>>

EmergencyValidationWitness ==
    /\ pc = "built" /\ Lifted /\ frame_type(frame) = "Emergency"
    /\ frame.data[1] = 146 /\ frame.data[2] = 0
    /\ res.op = "decode_emergency" /\ res.err = "invalid_reason"

\* C10: a constructed frame passed through id(), dlc() and data() and lifted
\* again by from_frame is the same frame (identifier, length, buffer, kind),
\* and the decoder of its kind returns Ok with the constructor's payload.
TransmitReceive ==
    (src.op \in Constructors /\ src.relifted) =>
        /\ pc # "aborted"
        /\ frame = src.prev
        /\ (res.op \in Decoders /\ KindOf(res.op) = KindOf(src.op))
              => (res.ok /\ res.val = src.payload)

TransmitReceiveWitness ==
    /\ src.op = "new_set_data" /\ src.relifted
    /\ Len(src.payload.val) = 1
    /\ res.op = "decode_set_data" /\ res.ok

====
